---- MODULE Spec2Model ----
(***************************************************************************)
(* A model of the Ansible provisioner plugin for aminator                  *)
(* (aminatorplugins/provisioner/ansible.py).                               *)
(*                                                                         *)
(* The plugin offers three lifecycle entry points to the aminator          *)
(* orchestrator: _pre_chroot_block (run on the host, before chroot),       *)
(* _provision_package and _store_package_metadata (both run inside the     *)
(* chroot rooted at the mount point).  The model keeps the host file       *)
(* system as a function from path strings to nodes, the plugin             *)
(* configuration, the process environment, and a log of the file system    *)
(* and process calls the plugin has made.                                  *)
(***************************************************************************)
EXTENDS Integers, Sequences, FiniteSets, TLC

VARIABLES
    config,      \* self._config.plugins[self.full_name]
    environ,     \* os.environ, restricted to VAULT_PWD
    fs,          \* the host file system: path -> node
    phase,       \* which lifecycle call the orchestrator has reached
    copied,      \* what _copy_playbooks returned ("none" before the call)
    inventory,   \* context.package.inventory
    cmdline,     \* the command string built by run_ansible_playbook
    result,      \* the outcome of the external command
    attributes,  \* context.package.attributes
    calls        \* the sequence of file system / process calls made so far

vars == <<config, environ, fs, phase, copied, inventory, cmdline, result,
          attributes, calls>>

----------------------------------------------------------------------------
(* Bounds *)

\* number of distinct directory tree contents
NumTrees == 2

Trees == 1 .. NumTrees

\* credential values the environment may hold in VAULT_PWD
SecretValues == {"hunter2", "tr0ub4dor"}

----------------------------------------------------------------------------
(* Paths.  Paths are strings, joined as the code joins them. *)

\* self._distro._mountpoint
Mountpoint == "/mnt"

\* config 'playbooks_path_source'
PlaybooksSource == "/artifacts/playbooks"

\* config 'playbooks_path_dest'
PlaybooksDest == "/srv/prov"

\* context.package.arg
PackageArg == "site.yml"

\* the path a process inside the chroot sees as p
Chroot(p) == Mountpoint \o p

\* os.path.join(a, b, c)
path_join(a, b, c) == a \o "/" \o b \o "/" \o c

\* the paths whose nodes the model tracks
Paths ==
    { PlaybooksSource,
      PlaybooksDest, Mountpoint \o PlaybooksDest,
      "/tmp", "/tmp/vault_password",
      "/mnt/tmp", "/mnt/tmp/vault_password",
      "/mnt/etc/ansible", "/mnt/etc/ansible/hosts" }

\* the parent directory of each tracked path that has a tracked parent
Parent(p) ==
    CASE p = "/tmp/vault_password"     -> "/tmp"
      [] p = "/mnt/tmp/vault_password" -> "/mnt/tmp"
      [] p = "/mnt/etc/ansible/hosts"  -> "/mnt/etc/ansible"
      [] OTHER                         -> ""

----------------------------------------------------------------------------
(* File system nodes *)

Absent == [kind |-> "absent", tree |-> 0, data |-> ""]
Dir(t) == [kind |-> "dir", tree |-> t, data |-> ""]
File(d) == [kind |-> "file", tree |-> 0, data |-> d]

\* os.path.isdir
isdir(f, p) == f[p].kind = "dir"

\* os.path.exists
exists(f, p) == f[p].kind # "absent"

----------------------------------------------------------------------------
(* Library calls *)

\* shutil.copytree(src, dst): lists src, creates dst, copies the tree
copytree(f, src, dst) ==
    IF ~isdir(f, src) \/ exists(f, dst)
    THEN [fs |-> f, raised |-> TRUE]
    ELSE [fs |-> [f EXCEPT ![dst] = Dir(f[src].tree)], raised |-> FALSE]

\* shutil.rmtree(path)
rmtree(f, p) ==
    IF ~isdir(f, p)
    THEN [fs |-> f, raised |-> TRUE]
    ELSE [fs |-> [f EXCEPT ![p] = Absent], raised |-> FALSE]

\* os.remove(path)
remove(f, p) ==
    IF f[p].kind # "file"
    THEN [fs |-> f, raised |-> TRUE]
    ELSE [fs |-> [f EXCEPT ![p] = Absent], raised |-> FALSE]

\* os.makedirs(path)
makedirs(f, p) ==
    IF exists(f, p)
    THEN [fs |-> f, raised |-> TRUE]
    ELSE [fs |-> [f EXCEPT ![p] = Dir(0)], raised |-> FALSE]

\* open(path, 'w'): creates or truncates the file
open_w(f, p) ==
    IF ~isdir(f, Parent(p)) \/ isdir(f, p)
    THEN [fs |-> f, raised |-> TRUE]
    ELSE [fs |-> [f EXCEPT ![p] = File("")], raised |-> FALSE]

\* f.write(data) / f.writelines(data) on a file opened with open_w
write(f, p, d) == [f EXCEPT ![p] = File(f[p].data \o d)]

----------------------------------------------------------------------------
(* The plugin's methods, as functions of the file system they run on.     *)
(* Each yields the new file system, what the method returned ("raised"    *)
(* when an exception left it) and the calls it made.                      *)

\* the path of the vault password file as _copy_playbooks computes it
VaultFileHost == path_join(Mountpoint, "tmp", "vault_password")

\* the path of the vault password file as the chrooted code names it
VaultFile == "/tmp/vault_password"

\* _copy_playbooks with the vault password written before the destination
\* is looked at
_copy_playbooks_secret_first(f, cfg, env) ==
    LET playbooks_path_dest == Mountpoint \o cfg.playbooks_path_dest
        o == open_w(f, VaultFileHost)
    IN  IF cfg.vault_password /\ ~o.raised /\ "VAULT_PWD" \in DOMAIN env
        THEN IF isdir(f, playbooks_path_dest)
             THEN [fs |-> write(o.fs, VaultFileHost, env["VAULT_PWD"]),
                   ret |-> "False", calls |-> <<"open", "writelines">>]
             ELSE LET c == copytree(write(o.fs, VaultFileHost, env["VAULT_PWD"]),
                                    cfg.playbooks_path_source, playbooks_path_dest)
                  IN  [fs |-> c.fs,
                       ret |-> IF c.raised THEN "raised" ELSE "True",
                       calls |-> <<"open", "writelines", "copytree">>]
        ELSE IF isdir(f, playbooks_path_dest)
        THEN [fs |-> f, ret |-> "False", calls |-> <<>>]
        ELSE LET c == copytree(f, cfg.playbooks_path_source, playbooks_path_dest)
             IN  [fs |-> c.fs,
                  ret |-> IF c.raised THEN "raised" ELSE "True",
                  calls |-> <<"copytree">>]

_copy_playbooks(f, cfg, env) ==
    LET playbooks_path_source == cfg.playbooks_path_source
        playbooks_path_dest == Mountpoint \o cfg.playbooks_path_dest
        c == copytree(f, playbooks_path_source, playbooks_path_dest)
        o == open_w(c.fs, VaultFileHost)
    IN  IF isdir(f, playbooks_path_dest)
        THEN [fs |-> f, ret |-> "False", calls |-> <<>>]
        ELSE IF c.raised
        THEN [fs |-> c.fs, ret |-> "raised", calls |-> <<"copytree">>]
        ELSE IF ~cfg.vault_password
        THEN [fs |-> c.fs, ret |-> "True", calls |-> <<"copytree">>]
        ELSE IF o.raised
        THEN [fs |-> o.fs, ret |-> "raised", calls |-> <<"copytree", "open">>]
        ELSE IF "VAULT_PWD" \notin DOMAIN env
        THEN [fs |-> o.fs, ret |-> "True", calls |-> <<"copytree", "open">>]
        ELSE [fs |-> write(o.fs, VaultFileHost, env["VAULT_PWD"]),
              ret |-> "True",
              calls |-> <<"copytree", "open", "writelines">>]

_write_local_inventory(f, cfg) ==
    LET path == cfg.inventory_file_path
        filename == path \o "/" \o cfg.inventory_file
        m == IF isdir(f, Chroot(path))
             THEN [fs |-> f, raised |-> FALSE]
             ELSE makedirs(f, Chroot(path))
        mcalls == IF isdir(f, Chroot(path)) THEN <<>> ELSE <<"makedirs">>
        o == open_w(m.fs, Chroot(filename))
    IN  IF m.raised
        THEN [fs |-> m.fs, ret |-> "raised", inventory |-> filename,
              calls |-> mcalls]
        ELSE IF o.raised
        THEN [fs |-> o.fs, ret |-> "raised", inventory |-> filename,
              calls |-> mcalls \o <<"open_inventory">>]
        ELSE [fs |-> write(o.fs, Chroot(filename), cfg.inventory_file_content),
              ret |-> "True", inventory |-> filename,
              calls |-> mcalls \o <<"open_inventory", "write_inventory">>]

\* run_ansible_playbook appending the vault option whatever vault_password is
run_ansible_playbook_always_vault(inv, extra_vars, playbook_dir, playbook, vault_password) ==
    LET path == playbook_dir \o "/" \o playbook
        command == "ansible-playbook -c local -i " \o inv \o " -e 'ami=True "
                   \o extra_vars \o "' " \o path
    IN  command \o " --vault-password-file /tmp/vault_password"

run_ansible_playbook(inv, extra_vars, playbook_dir, playbook, vault_password) ==
    LET path == playbook_dir \o "/" \o playbook
        command == "ansible-playbook -c local -i " \o inv \o " -e 'ami=True "
                   \o extra_vars \o "' " \o path
    IN  IF vault_password
        THEN command \o " --vault-password-file /tmp/vault_password"
        ELSE command

\* _provision_package going on to the command after a failed inventory
\* write
_provision_package_ignores_inventory(f, cfg, arg, exit) ==
    LET w == _write_local_inventory(f, cfg)
    IN  [fs |-> w.fs, ret |-> exit, inventory |-> w.inventory,
         cmdline |-> run_ansible_playbook(w.inventory, cfg.extravars,
                         cfg.playbooks_path_dest, arg, cfg.vault_password),
         calls |-> w.calls \o <<"command">>]

\* exit is the outcome of the process the command decorator starts
_provision_package(f, cfg, arg, exit) ==
    LET w == _write_local_inventory(f, cfg)
    IN  IF w.ret = "raised"
        THEN [fs |-> w.fs, ret |-> "raised", inventory |-> w.inventory,
              cmdline |-> "", calls |-> w.calls]
        ELSE IF w.ret # "True"
        THEN [fs |-> w.fs, ret |-> "False", inventory |-> w.inventory,
              cmdline |-> "", calls |-> w.calls]
        ELSE [fs |-> w.fs, ret |-> exit, inventory |-> w.inventory,
              cmdline |-> run_ansible_playbook(w.inventory, cfg.extravars,
                              cfg.playbooks_path_dest, arg, cfg.vault_password),
              calls |-> w.calls \o <<"command">>]

\* _ansible_cleanup without the removal of the vault password file
_ansible_cleanup_keeps_secret(f, cfg) ==
    LET r == IF ~cfg.keep_playbooks
             THEN rmtree(f, Chroot(cfg.playbooks_path_dest))
             ELSE [fs |-> f, raised |-> FALSE]
        rcalls == IF ~cfg.keep_playbooks THEN <<"rmtree">> ELSE <<>>
    IN  [fs |-> r.fs, raised |-> r.raised, calls |-> rcalls]

\* _ansible_cleanup removing the playbooks whatever keep_playbooks says
_ansible_cleanup_ignores_keep(f, cfg) ==
    LET r == rmtree(f, Chroot(cfg.playbooks_path_dest))
        d == remove(r.fs, Chroot(VaultFile))
    IN  IF r.raised
        THEN [fs |-> r.fs, raised |-> TRUE, calls |-> <<"rmtree">>]
        ELSE IF ~cfg.vault_password
        THEN [fs |-> r.fs, raised |-> FALSE, calls |-> <<"rmtree">>]
        ELSE [fs |-> d.fs, raised |-> d.raised, calls |-> <<"rmtree", "remove">>]

\* _ansible_cleanup removing the inventory file as well
_ansible_cleanup_removes_inventory(f, cfg) ==
    LET r == IF ~cfg.keep_playbooks
             THEN rmtree(f, Chroot(cfg.playbooks_path_dest))
             ELSE [fs |-> f, raised |-> FALSE]
        rcalls == IF ~cfg.keep_playbooks THEN <<"rmtree">> ELSE <<>>
        d == IF cfg.vault_password
             THEN remove(r.fs, Chroot(VaultFile))
             ELSE [fs |-> r.fs, raised |-> FALSE]
        dcalls == IF cfg.vault_password THEN <<"remove">> ELSE <<>>
        inv == Chroot(cfg.inventory_file_path \o "/" \o cfg.inventory_file)
    IN  IF r.raised
        THEN [fs |-> r.fs, raised |-> TRUE, calls |-> rcalls]
        ELSE IF d.raised
        THEN [fs |-> d.fs, raised |-> TRUE, calls |-> rcalls \o dcalls]
        ELSE [fs |-> [d.fs EXCEPT ![inv] = Absent], raised |-> FALSE,
              calls |-> rcalls \o dcalls]

_ansible_cleanup(f, cfg) ==
    LET r == IF ~cfg.keep_playbooks
             THEN rmtree(f, Chroot(cfg.playbooks_path_dest))
             ELSE [fs |-> f, raised |-> FALSE]
        rcalls == IF ~cfg.keep_playbooks THEN <<"rmtree">> ELSE <<>>
        d == remove(r.fs, Chroot(VaultFile))
    IN  IF r.raised
        THEN [fs |-> r.fs, raised |-> TRUE, calls |-> rcalls]
        ELSE IF ~cfg.vault_password
        THEN [fs |-> r.fs, raised |-> FALSE, calls |-> rcalls]
        ELSE [fs |-> d.fs, raised |-> d.raised, calls |-> rcalls \o <<"remove">>]

NoAttributes == [name |-> "", version |-> "", release |-> "", extra_vars |-> ""]

\* _store_package_metadata recording the metadata before it cleans up
_store_package_metadata_records_first(f, cfg, arg, attrs) ==
    LET c == _ansible_cleanup(f, cfg)
    IN  [fs |-> c.fs, ret |-> IF c.raised THEN "raised" ELSE "None",
         attributes |-> [name |-> arg, version |-> cfg.appversion,
                         release |-> "", extra_vars |-> cfg.extravars],
         calls |-> <<"metadata">> \o c.calls]

_store_package_metadata(f, cfg, arg, attrs) ==
    LET c == _ansible_cleanup(f, cfg)
    IN  IF c.raised
        THEN [fs |-> c.fs, ret |-> "raised", attributes |-> attrs,
              calls |-> c.calls]
        ELSE [fs |-> c.fs, ret |-> "None",
              attributes |-> [name |-> arg, version |-> cfg.appversion,
                              release |-> "", extra_vars |-> cfg.extravars],
              calls |-> c.calls \o <<"metadata">>]

----------------------------------------------------------------------------
(* Initial states: a configuration, an environment and a mounted volume.  *)

\* the plugin configurations considered
Configs ==
    [ vault_password        : BOOLEAN,
      keep_playbooks        : BOOLEAN,
      playbooks_path_source : {PlaybooksSource},
      playbooks_path_dest   : {PlaybooksDest},
      inventory_file_path   : {"/etc/ansible"},
      inventory_file        : {"hosts"},
      inventory_file_content : {"127.0.0.1\n"},
      extravars             : {"", "env=prod"},
      appversion            : {"1.0"} ]

\* os.environ with VAULT_PWD unset
NoEnviron == [k \in {} |-> ""]

Environs == {NoEnviron} \cup {[VAULT_PWD |-> s] : s \in SecretValues}

\* the file systems a run may start from: the playbooks source may be
\* missing, the destination may already be there, the volume may lack
\* /tmp, and the inventory directory may be missing, present (with or
\* without an older inventory) or shadowed by a plain file
InitialFileSystems ==
    { [p \in Paths |->
         CASE p = PlaybooksSource -> src
           [] p = Mountpoint \o PlaybooksDest -> dst
           [] p = "/tmp" -> Dir(0)
           [] p = "/mnt/tmp" -> tmp
           [] p = "/mnt/etc/ansible" -> inv[1]
           [] p = "/mnt/etc/ansible/hosts" -> inv[2]
           [] OTHER -> Absent] :
      src \in {Absent} \cup {Dir(t) : t \in Trees},
      dst \in {Absent} \cup {Dir(t) : t \in Trees},
      tmp \in {Absent, Dir(0)},
      inv \in { <<Absent, Absent>>, <<Dir(0), Absent>>,
                <<Dir(0), File("stale\n")>>, <<File(""), Absent>> } }

Init ==
    /\ config \in Configs
    /\ environ \in Environs
    /\ fs \in InitialFileSystems
    /\ phase = "Idle"
    /\ copied = "none"
    /\ inventory = ""
    /\ cmdline = ""
    /\ result = "none"
    /\ attributes = NoAttributes
    /\ calls = <<>>

----------------------------------------------------------------------------
(* The lifecycle calls the orchestrator makes *)

\* the outcomes of the external process: exit status 0, a non-zero exit
\* status, or a failure to start it
Exits == {"ok", "nonzero", "launch_failed"}

\* _pre_chroot_block: runs _copy_playbooks on the host and drops what it
\* returns; an exception leaves the call and ends the run
PreChrootBlock ==
    /\ phase = "Idle"
    /\ LET r == _copy_playbooks(fs, config, environ)
       IN  /\ fs' = r.fs
           /\ copied' = r.ret
           /\ calls' = calls \o r.calls
           /\ phase' = IF r.ret = "raised" THEN "Crashed" ELSE "InChroot"
    /\ UNCHANGED <<config, environ, inventory, cmdline, result, attributes>>

\* _provision_package, called inside the chroot
ProvisionPackage ==
    /\ phase = "InChroot"
    /\ \E exit \in Exits :
         LET r == _provision_package(fs, config, PackageArg, exit)
         IN  /\ fs' = r.fs
             /\ inventory' = r.inventory
             /\ cmdline' = r.cmdline
             /\ result' = r.ret
             /\ calls' = calls \o r.calls
             /\ phase' = IF r.ret = "raised" THEN "Crashed" ELSE "Provisioned"
    /\ UNCHANGED <<config, environ, copied, attributes>>

\* _store_package_metadata, called inside the chroot after provisioning
StorePackageMetadata ==
    /\ phase = "Provisioned"
    /\ LET r == _store_package_metadata(fs, config, PackageArg, attributes)
       IN  /\ fs' = r.fs
           /\ attributes' = r.attributes
           /\ calls' = calls \o r.calls
           /\ phase' = IF r.ret = "raised" THEN "Crashed"
                       ELSE IF result = "ok" THEN "Done" ELSE "Failed"
    /\ UNCHANGED <<config, environ, copied, inventory, cmdline, result>>

\* _provision_package hands a failed command result back to its caller
\* and runs no cleanup itself: the run may end on that result, with no
\* further lifecycle call made
ReportFailure ==
    /\ phase = "Provisioned"
    /\ result # "ok"
    /\ phase' = "Failed"
    /\ UNCHANGED <<config, environ, fs, copied, inventory, cmdline, result,
                   attributes, calls>>

Next ==
    \/ PreChrootBlock
    \/ ProvisionPackage
    \/ StorePackageMetadata
    \/ ReportFailure

Spec == Init /\ [][Next]_vars

\* _ansible_cleanup called on its own, up to two times in a row, on the
\* volume that staging left behind
Unstage ==
    /\ phase \in {"InChroot", "Unstaged"}
    /\ LET r == _ansible_cleanup(fs, config)
       IN  /\ fs' = r.fs
           /\ calls' = calls \o r.calls
           /\ result' = IF r.raised THEN "raised" ELSE "None"
           /\ phase' = IF r.raised THEN "Crashed"
                       ELSE IF phase = "InChroot" THEN "Unstaged"
                       ELSE "UnstagedTwice"
    /\ UNCHANGED <<config, environ, copied, inventory, cmdline, attributes>>

UnstageNext ==
    \/ PreChrootBlock
    \/ Unstage

SpecUnstage == Init /\ [][UnstageNext]_vars

----------------------------------------------------------------------------
(* Vocabulary of the properties *)

\* the run has ended
Terminal == phase \in {"Done", "Failed", "Crashed"}

\* the number of times call c was made
Count(c) == Cardinality({i \in DOMAIN calls : calls[i] = c})

TypeOK ==
    /\ config \in Configs
    /\ environ \in Environs
    /\ phase \in {"Idle", "InChroot", "Provisioned", "Done", "Failed", "Crashed",
                 "Unstaged", "UnstagedTwice"}
    /\ copied \in {"none", "True", "False", "raised"}
    /\ result \in {"none", "None", "False", "raised"} \cup Exits

\* the playbooks source is an existing directory
SourceIsDir == isdir(fs, config.playbooks_path_source)

\* VAULT_PWD is set in the environment
HasVaultPwd == "VAULT_PWD" \in DOMAIN environ

\* the credential was written to the secret file in this run
SecretWritten == Count("writelines") > 0

----------------------------------------------------------------------------
(* Properties *)

\* C1: in every run in which the external command fails, cleanup has run
\* by the time the run has reported failure: a secret file that was written
\* is gone and, unless keep_playbooks is set, so are the staged playbooks.
C1_CleanupBeforeFailure ==
    (phase = "Failed" /\ copied = "True") =>
        /\ SecretWritten => ~exists(fs, "/mnt/tmp/vault_password")
        /\ ~config.keep_playbooks => ~exists(fs, "/mnt/srv/prov")

\* C2: after a run that completed successfully the secret file does not
\* exist under the mount, whether or not vault support was requested.
C2_NoSecretAfterSuccess ==
    phase = "Done" => ~exists(fs, "/mnt/tmp/vault_password")

\* a successful run in which the credential was written and then erased
C2_Witness ==
    /\ phase = "Done"
    /\ config.vault_password
    /\ SecretWritten
    /\ Count("remove") = 1

\* C3: the secret erase is invoked exactly once in a completed run in which
\* the secret was written, and not at all in a run in which it was not.
C3_EraseOnceIffWritten ==
    phase \in {"Done", "Failed"} =>
        Count("remove") = IF SecretWritten THEN 1 ELSE 0

\* C4: with keep_playbooks false the staged playbooks directory does not
\* exist under the mount after a completed run, success or command failure.
C4_PlaybooksRemoved ==
    (phase \in {"Done", "Failed"} /\ copied = "True" /\ ~config.keep_playbooks) =>
        ~exists(fs, "/mnt/srv/prov")

\* C5: with keep_playbooks true, after the run has ended the playbooks that
\* were staged are still under the mount and equal the source tree.
C5_KeptPlaybooksIntact ==
    (Terminal /\ config.keep_playbooks /\ copied = "True") =>
        /\ isdir(fs, "/mnt/srv/prov")
        /\ fs["/mnt/srv/prov"] = fs[PlaybooksSource]

\* a run with keep_playbooks that staged the playbooks and went through
\* cleanup
C5_Witness ==
    /\ phase \in {"Done", "Failed"}
    /\ config.keep_playbooks
    /\ copied = "True"
    /\ Count("metadata") = 1

\* C6: when the playbooks destination already exists, staging returns
\* False and changes nothing: no copy is made, no secret file is written.
C6_DestinationExistsNoMutation ==
    [][(phase = "Idle" /\ isdir(fs, "/mnt/srv/prov")) =>
          (copied' = "False" /\ fs' = fs /\ calls' = calls)]_vars

\* staging was refused although a vault password was there to be written
C6_Witness ==
    /\ copied = "False"
    /\ config.vault_password
    /\ HasVaultPwd
    /\ isdir(fs, "/mnt/tmp")
    /\ isdir(fs, "/mnt/srv/prov")

\* C7: when staging fails because the destination exists, no later phase
\* runs: no inventory write, no command, no metadata, no cleanup.
C7_StageFailureEndsRun ==
    copied = "False" => calls = <<>>

\* C8: when the playbooks source is not a directory, staging fails without
\* attempting the copy and without creating anything under the mount.
C8_SourceMissingNoCopy ==
    (copied # "none" /\ ~SourceIsDir) =>
        /\ Count("copytree") = 0
        /\ ~exists(fs, "/mnt/srv/prov")
        /\ ~exists(fs, "/mnt/tmp/vault_password")

\* C9: when vault support is requested and VAULT_PWD is absent, staging
\* does not return what it returns when the secret was staged ("True"),
\* and the secret file is absent at the end of the run.
C9_MissingSecretReported ==
    (config.vault_password /\ ~HasVaultPwd /\ copied # "none") =>
        /\ copied # "True"
        /\ Terminal => ~exists(fs, "/mnt/tmp/vault_password")

\* C10: the secret file exists under the mount only if vault support is
\* requested and a credential value is available.
C10_SecretOnlyWithCredential ==
    exists(fs, "/mnt/tmp/vault_password") =>
        (config.vault_password /\ HasVaultPwd)

\* the position in the lifecycle of each call the plugin makes, as the
\* code orders them: staging, inventory, command, cleanup, metadata
Rank(c) ==
    CASE c \in {"copytree", "open", "writelines"}                  -> 1
      [] c \in {"makedirs", "open_inventory", "write_inventory"}   -> 2
      [] c = "command"                                             -> 3
      [] c \in {"rmtree", "remove"}                                -> 4
      [] c = "metadata"                                            -> 5

\* the calls of cleanup
CleanupCalls == {"rmtree", "remove"}

\* C11 as stated: the provisioning record is captured before cleanup
\* starts, so every cleanup call has the metadata recording before it.
C11_RecordBeforeCleanup ==
    \A i \in DOMAIN calls :
        calls[i] \in CleanupCalls =>
            \E j \in 1 .. (i - 1) : calls[j] = "metadata"

\* C11 as amended: the calls are made in the order staging, inventory
\* write, command, cleanup, metadata recording; the record is captured
\* only after cleanup has finished.
C11_CleanupBeforeRecord ==
    /\ \A i, j \in DOMAIN calls : i < j => Rank(calls[i]) <= Rank(calls[j])
    /\ \A i \in DOMAIN calls :
           calls[i] = "metadata" =>
               /\ i = Len(calls)
               /\ ~config.keep_playbooks => \E j \in 1 .. (i - 1) : calls[j] = "rmtree"
               /\ config.vault_password => \E j \in 1 .. (i - 1) : calls[j] = "remove"

\* a run that staged playbooks and secret, ran the command, removed both
\* and recorded the metadata
C11_Witness ==
    /\ phase = "Done"
    /\ Count("copytree") = 1
    /\ Count("command") = 1
    /\ Count("rmtree") = 1
    /\ Count("remove") = 1
    /\ Count("metadata") = 1

\* C12: when the command exits non-zero, the run ends in failure with the
\* provisioning record produced and cleanup run.
C12_RecordAndCleanupOnFailure ==
    (Terminal /\ result = "nonzero" /\ copied = "True") =>
        /\ phase = "Failed"
        /\ attributes = [name |-> PackageArg, version |-> config.appversion,
                         release |-> "", extra_vars |-> config.extravars]
        /\ ~config.keep_playbooks => Count("rmtree") = 1
        /\ config.vault_password => Count("remove") = 1

\* C13: a second unstage in a row (cleanup with keep_playbooks false)
\* raises no error and leaves the file system as the first call left it.
C13_UnstageIdempotent ==
    [][(phase = "Unstaged" /\ ~config.keep_playbooks) =>
          (result' # "raised" /\ fs' = fs)]_vars

\* C14 as stated: within cleanup the secret file is erased before the
\* playbooks tree is removed.
C14_EraseBeforeUnstage ==
    \A i, j \in DOMAIN calls :
        (calls[i] = "remove" /\ calls[j] = "rmtree") => i < j

\* C15: when the inventory write raises after the playbooks were staged,
\* the run ends with the staged playbooks removed and the secret erased.
C15_InventoryFailureCleansUp ==
    (phase = "Crashed" /\ copied = "True" /\ result = "raised") =>
        /\ ~exists(fs, "/mnt/tmp/vault_password")
        /\ ~config.keep_playbooks => ~exists(fs, "/mnt/srv/prov")

\* C16: the external command is invoked only after the inventory file was
\* written in the same run; a failed inventory write ends the run with no
\* command invoked.
C16_NoCommandWithoutInventory ==
    /\ \A i \in DOMAIN calls :
           calls[i] = "command" =>
               \E j \in 1 .. (i - 1) : calls[j] = "write_inventory"
    /\ (phase = "Crashed" /\ Count("write_inventory") = 0) =>
           (Count("command") = 0 /\ cmdline = "")

\* the inventory write failed after staging and the run ended there
C16_Witness ==
    /\ phase = "Crashed"
    /\ copied = "True"
    /\ result = "raised"
    /\ Count("write_inventory") = 0
    /\ Count("command") = 0

\* C17: after a completed run the inventory file written in that run is
\* still at <inventory_dir>/<inventory_filename> with the content written.
C17_InventoryPersists ==
    (Terminal /\ Count("write_inventory") = 1) =>
        fs["/mnt/etc/ansible/hosts"] = File(config.inventory_file_content)

\* a run that overwrote an older inventory and went through a cleanup that
\* removed the playbooks and the secret
C17_Witness ==
    /\ phase = "Done"
    /\ Count("write_inventory") = 1
    /\ Count("makedirs") = 0
    /\ Count("rmtree") = 1
    /\ Count("remove") = 1
    /\ Count("metadata") = 1

\* C18: the command line built is
\* "ansible-playbook -c local -i <inventory> -e 'ami=True <extra_vars>' <dir>/<playbook>"
\* followed by the vault-password-file option iff vault_password is set;
\* for the Scenario A inputs it is exactly the string of the scenario.
C18_CommandLine ==
    Count("command") = 1 =>
        /\ cmdline = "ansible-playbook -c local -i /etc/ansible/hosts -e 'ami=True "
                     \o config.extravars \o "' /srv/prov/site.yml"
                     \o (IF config.vault_password
                         THEN " --vault-password-file /tmp/vault_password"
                         ELSE "")
        /\ (~config.vault_password /\ config.extravars = "") =>
               cmdline = "ansible-playbook -c local -i /etc/ansible/hosts -e 'ami=True ' /srv/prov/site.yml"
        /\ (config.vault_password /\ config.extravars = "env=prod") =>
               cmdline = "ansible-playbook -c local -i /etc/ansible/hosts -e 'ami=True env=prod' /srv/prov/site.yml --vault-password-file /tmp/vault_password"

\* the command was built for the Scenario A inputs: no vault, no extra vars
C18_Witness ==
    /\ Count("command") = 1
    /\ ~config.vault_password
    /\ config.extravars = ""
    /\ copied = "True"
    /\ result = "ok"

\* the command line carries the --vault-password-file option
HasVaultOption ==
    cmdline = run_ansible_playbook(inventory, config.extravars,
                  config.playbooks_path_dest, PackageArg, TRUE)

\* C19: a playbooks destination that was there before the run, so that
\* staging refused to copy into it, is neither removed nor modified by any
\* later lifecycle call.
C19_PreexistingDestUntouched ==
    [][copied = "False" => fs'["/mnt/srv/prov"] = fs["/mnt/srv/prov"]]_vars

\* C20: the command is invoked with the --vault-password-file option only
\* when the secret file was written with the credential during staging;
\* the file it points at is neither missing nor empty.
C20_VaultOptionOnlyWithSecret ==
    (phase = "Provisioned" /\ Count("command") = 1 /\ HasVaultOption) =>
        /\ SecretWritten
        /\ fs["/mnt/tmp/vault_password"].kind = "file"
        /\ fs["/mnt/tmp/vault_password"].data # ""

====
